---------------------------- MODULE Spec2Model ----------------------------
(***************************************************************************)
(* Model of LMR_config.py: the class-level parameter groups (wrapper,      *)
(* core, proxies with _pages/_ncdc, psm with _linear/_linear_TorP/         *)
(* _bilinear/_h_interp, prior), their __init__ resolvers and the Config    *)
(* aggregate.                                                              *)
(*                                                                         *)
(* A Python str is a sequence of tokens; "/", "_", "-" are tokens of their *)
(* own, so os.path.join, str.join and str.split act on what they act on.   *)
(* A Python list or dict is an object on the heap, named by its address:   *)
(* two fields alias exactly when they hold the same address.               *)
(***************************************************************************)
EXTENDS Integers, Sequences, FiniteSets, TLC

VARIABLES cls, heap, configs, pc, edits, muts, calls, result, scan

vars == <<cls, heap, configs, pc, edits, muts, calls, result, scan>>

(***************************************************************************)
(* Bounds of the exploration.                                              *)
(***************************************************************************)
MaxConfigs == 2
MaxEdits == 1
MaxMuts == 1
MaxCalls == 1

MaxRot == 25

(***************************************************************************)
(* Strings.                                                                *)
(***************************************************************************)
None == <<"<None>">>

SEP == "/"

Range(f) == {f[x] : x \in DOMAIN f}

Last(s) == s[Len(s)]

\* one path component appended, posixpath.join(a, b)
join(a, b) ==
    IF b # <<>> /\ b[1] = SEP THEN b
    ELSE IF a = <<>> \/ Last(a) = SEP THEN a \o b
    ELSE a \o <<SEP>> \o b

join3(a, b, c) == join(join(a, b), c)

join4(a, b, c, d) == join(join3(a, b, c), d)

\* sep.join(items), items a sequence of strings
RECURSIVE StrJoin(_, _)
StrJoin(sep, items) ==
    IF items = <<>> THEN <<>>
    ELSE IF Len(items) = 1 THEN items[1]
    ELSE items[1] \o sep \o StrJoin(sep, Tail(items))

\* s.rsplit('_', 1)[0] in the place of s.split('_', 1)[0]
MutSplitFirst(s) ==
    IF "_" \in Range(s)
    THEN SubSeq(s, 1, (CHOOSE i \in 1..Len(s) :
                          s[i] = "_" /\ \A j \in (i + 1)..Len(s) : s[j] # "_") - 1)
    ELSE s

\* s.split('_', 1)[0]: the part of s before its first '_', s itself without one
RECURSIVE SplitFirst(_)
SplitFirst(s) ==
    IF s = <<>> THEN <<>>
    ELSE IF s[1] = "_" THEN <<>>
    ELSE <<s[1]>> \o SplitFirst(Tail(s))

(***************************************************************************)
(* Heap objects: lists and dicts.  A dict keeps its entries in the order   *)
(* of declaration; an entry's value is a heap address (ref) or a str (s).  *)
(***************************************************************************)
ListObj(items) == [kind |-> "list", items |-> items, entries |-> <<>>]

DictObj(entries) == [kind |-> "dict", items |-> <<>>, entries |-> entries]

RefEntry(k, a) == [k |-> k, ref |-> a, s |-> <<>>]

StrEntry(k, v) == [k |-> k, ref |-> 0, s |-> v]

\* list(x): a new list object with the items of x
ListCopy(h, a) == Append(h, ListObj(h[a].items))

\* deepcopy of a dict of lists: every value list copied, then the dict
DeepCopyLists(h, a) ==
    LET es == h[a].entries
        n == Len(es)
    IN h \o [i \in 1..n |-> ListObj(h[es[i].ref].items)]

\* dict(x) in the place of deepcopy(x): the value lists shared
MutDeepCopyDict(h, a) == Append(DeepCopyLists(h, a), DictObj(h[a].entries))

DeepCopyDict(h, a) ==
    LET es == h[a].entries
        n == Len(es)
        h1 == DeepCopyLists(h, a)
    IN Append(h1, DictObj([i \in 1..n |-> RefEntry(es[i].k, Len(h) + i)]))

\* the value of a dict of lists: its entries with the lists' items
TableOf(h, a) ==
    LET es == h[a].entries
    IN [i \in 1..Len(es) |-> [k |-> es[i].k, labels |-> h[es[i].ref].items]]

(***************************************************************************)
(* Class-level defaults (the "User Parameters" sections).  The two         *)
(* classification tables and the proxy_order lists carry representative    *)
(* rows of the shipped ones.                                               *)
(***************************************************************************)
DbversionDefault == <<"v0.1.0">>

\* 'NCDC_%s_Proxies.df.pckl' % (dbversion), evaluated in the class body
NcdcDatafile(v) == <<"NCDC", "_">> \o v \o <<"_", "Proxies.df.pckl">>

NcdcMetafile(v) == <<"NCDC", "_">> \o v \o <<"_", "Metadata.df.pckl">>

Regions ==
    << <<"Antarctica">>, <<"Arctic">>, <<"Asia">>, <<"Australasia">>,
       <<"Europe">>, <<"North America">>, <<"South America">> >>

\* the list and dict objects the class bodies create, by address
ClassHeap ==
    << ListObj(<< <<"NCDC">> >>),                                 \* 1 proxies.use_from
       ListObj(Regions),                                          \* 2 _pages.regions
       ListObj(<< <<"1.0">> >>),                                  \* 3 _pages.proxy_resolution
       ListObj(<< <<"Tree ring", "_", "Width">>,
                  <<"Ice core", "_", "d18O">>,
                  <<"Coral", "_", "d18O">> >>),                   \* 4 _pages.proxy_order
       ListObj(<< <<"Ring width">>, <<"TRW">> >>),                \* 5
       ListObj(<< <<"d18O">> >>),                                 \* 6
       ListObj(<< <<"d18O">> >>),                                 \* 7
       DictObj(<< RefEntry(<<"Tree ring", "_", "Width">>, 5),
                  RefEntry(<<"Ice core", "_", "d18O">>, 6),
                  RefEntry(<<"Coral", "_", "d18O">>, 7) >>),      \* 8 _pages.proxy_assim2
       ListObj(<<>>),                                             \* 9 _pages.proxy_blacklist
       ListObj(Regions),                                          \* 10 _ncdc.regions
       ListObj(<< <<"1.0">> >>),                                  \* 11 _ncdc.proxy_resolution
       ListObj(<<>>),                                             \* 12 _ncdc.database_filter
       ListObj(<< <<"Tree Rings", "_", "WidthPages">>,
                  <<"Corals and Sclerosponges", "_", "d18O">>,
                  <<"Ice Cores", "_", "d18O">> >>),               \* 13 _ncdc.proxy_order
       ListObj(<< <<"d18O">>, <<"delta18O">> >>),                 \* 14
       ListObj(<< <<"d18O">>, <<"delta18O">> >>),                 \* 15
       ListObj(<< <<"TRW">> >>),                                  \* 16
       DictObj(<< RefEntry(<<"Corals and Sclerosponges", "_", "d18O">>, 14),
                  RefEntry(<<"Ice Cores", "_", "d18O">>, 15),
                  RefEntry(<<"Tree Rings", "_", "WidthPages">>, 16) >>),
                                                                  \* 17 _ncdc.proxy_assim2
       ListObj(<< <<"00aust01a">>, <<"06cook02a">> >>),           \* 18 _ncdc.proxy_blacklist
       DictObj(<< StrEntry(<<"pages">>, <<"linear">>),
                  StrEntry(<<"NCDC">>, <<"linear">>) >>),         \* 19 psm.use_psm
       ListObj(<< <<"tas", "_", "sfc", "_", "Amon">>,
                  <<"pr", "_", "sfc", "_", "Amon">> >>),          \* 20 prior.psm_required_variables
       ListObj(<< <<"tas", "_", "sfc", "_", "Amon">>,
                  <<"pr", "_", "sfc", "_", "Amon">> >>) >>        \* 21 prior.state_variables

ClassDefaults ==
    [ wrapper_multi_seed |-> None,
      wrapper_iter_range |-> <<0, 0>>,
      core_nexp |-> <<"test", "_", "ncdc", "_", "v0.1.0">>,
      core_lmr_path |-> <<"/", "home", "/", "disk", "/", "kalman3", "/",
                          "rtardif", "/", "LMR">>,
      core_online_reconstruction |-> FALSE,
      core_clean_start |-> TRUE,
      core_use_precalc_ye |-> FALSE,
      core_recon_period |-> <<1800, 2000>>,
      core_nens |-> 100,
      core_seed |-> 0,
      core_loc_rad |-> None,
      core_datadir_output |-> <<"/", "home", "/", "disk", "/", "kalman3", "/",
                                "rtardif", "/", "LMR", "/", "output", "/", "wrk">>,
      core_archive_dir |-> <<"/", "home", "/", "disk", "/", "kalman3", "/",
                             "rtardif", "/", "LMR", "/", "output">>,
      proxies_use_from |-> 1,
      proxies_proxy_frac |-> <<"1.0">>,
      pages_datadir_proxy |-> None,
      pages_datafile_proxy |-> <<"Pages2k", "_", "Proxies.df.pckl">>,
      pages_metafile_proxy |-> <<"Pages2k", "_", "Metadata.df.pckl">>,
      pages_dataformat_proxy |-> <<"DF">>,
      pages_regions |-> 2,
      pages_proxy_resolution |-> 3,
      pages_proxy_timeseries_kind |-> <<"asis">>,
      pages_proxy_order |-> 4,
      pages_proxy_assim2 |-> 8,
      pages_proxy_blacklist |-> 9,
      ncdc_dbversion |-> DbversionDefault,
      ncdc_datadir_proxy |-> None,
      ncdc_datafile_proxy |-> NcdcDatafile(DbversionDefault),
      ncdc_metafile_proxy |-> NcdcMetafile(DbversionDefault),
      ncdc_dataformat_proxy |-> <<"DF">>,
      ncdc_regions |-> 10,
      ncdc_proxy_resolution |-> 11,
      ncdc_proxy_timeseries_kind |-> <<"asis">>,
      ncdc_database_filter |-> 12,
      ncdc_proxy_order |-> 13,
      ncdc_proxy_assim2 |-> 17,
      ncdc_proxy_blacklist |-> 18,
      psm_use_psm |-> 19,
      linear_datadir_calib |-> None,
      linear_datatag_calib |-> <<"GISTEMP">>,
      linear_datafile_calib |-> <<"gistemp1200", "_", "ERSST.nc">>,
      linear_dataformat_calib |-> <<"NCD">>,
      linear_pre_calib_datafile |-> None,
      linear_psm_r_crit |-> <<"0.0">>,
      torp_datadir_calib |-> None,
      torp_datatag_calib_T |-> <<"GISTEMP">>,
      torp_datafile_calib_T |-> <<"gistemp1200", "_", "ERSST.nc">>,
      torp_datatag_calib_P |-> <<"GPCC">>,
      torp_datafile_calib_P |-> <<"GPCC", "_", "precip.mon.flux.1x1.v6.nc">>,
      torp_dataformat_calib |-> <<"NCD">>,
      torp_pre_calib_datafile_T |-> None,
      torp_pre_calib_datafile_P |-> None,
      torp_psm_r_crit |-> <<"0.0">>,
      bilinear_datatag_calib_T |-> <<"GISTEMP">>,
      bilinear_datafile_calib_T |-> <<"gistemp1200", "_", "ERSST.nc">>,
      bilinear_dataformat_calib_T |-> <<"NCD">>,
      bilinear_datatag_calib_P |-> <<"DaiPDSI">>,
      bilinear_datafile_calib_P |-> <<"Dai", "_", "pdsi.mon.mean.selfcalibrated",
                                      "_", "185001", "-", "201412.nc">>,
      bilinear_dataformat_calib_P |-> <<"NCD">>,
      bilinear_datadir_calib |-> None,
      bilinear_pre_calib_datafile |-> None,
      bilinear_psm_r_crit |-> <<"0.0">>,
      hinterp_radius_influence |-> <<"50.">>,
      hinterp_datadir_obsError |-> <<".", "/">>,
      hinterp_filename_obsError |-> <<"R.txt">>,
      hinterp_dataformat_obsError |-> <<"TXT">>,
      hinterp_datafile_obsError |-> None,
      prior_datadir_prior |-> None,
      prior_prior_source |-> <<"ccsm4", "_", "last", "_", "millenium">>,
      prior_datafile_prior |-> <<"[vardef", "_", "template]", "_", "CCSM4", "_",
                                 "past1000", "_", "085001", "-", "185012.nc">>,
      prior_dataformat_prior |-> <<"NCD">>,
      prior_psm_required_variables |-> 20,
      prior_state_variables |-> 21,
      prior_detrend |-> FALSE,
      prior_state_kind |-> <<"anom">> ]

(***************************************************************************)
(* The resolvers (__init__ of each group).  c is the class-level state at  *)
(* the time of the call, h the heap; a resolver that allocates returns the *)
(* new heap with the instance.                                             *)
(***************************************************************************)
Wrapper(c) ==
    [ multi_seed |-> c.wrapper_multi_seed,
      iter_range |-> c.wrapper_iter_range ]

\* curr_iter taken from the end of iter_range, the argument ignored
MutCore(c, curr_iter) ==
    [ nexp |-> c.core_nexp,
      lmr_path |-> c.core_lmr_path,
      online_reconstruction |-> c.core_online_reconstruction,
      clean_start |-> c.core_clean_start,
      use_precalc_ye |-> c.core_use_precalc_ye,
      recon_period |-> c.core_recon_period,
      nens |-> c.core_nens,
      loc_rad |-> c.core_loc_rad,
      seed |-> c.core_seed,
      datadir_output |-> c.core_datadir_output,
      archive_dir |-> c.core_archive_dir,
      curr_iter |-> c.wrapper_iter_range[2] ]

\* curr_iter: <<>> for None (the default of the argument), <<n>> for n
Core(c, curr_iter) ==
    [ nexp |-> c.core_nexp,
      lmr_path |-> c.core_lmr_path,
      online_reconstruction |-> c.core_online_reconstruction,
      clean_start |-> c.core_clean_start,
      use_precalc_ye |-> c.core_use_precalc_ye,
      recon_period |-> c.core_recon_period,
      nens |-> c.core_nens,
      loc_rad |-> c.core_loc_rad,
      seed |-> c.core_seed,
      datadir_output |-> c.core_datadir_output,
      archive_dir |-> c.core_archive_dir,
      curr_iter |-> IF curr_iter = <<>> THEN c.wrapper_iter_range[1]
                    ELSE curr_iter[1] ]

\* the orders in which a dict of n keys may be iterated (a Python 2 dict
\* iterates in hash order, which is none of the program's choosing)
IterOrders(n) ==
    {f \in [1..n -> 1..n] : \A i, j \in 1..n : f[i] = f[j] => i = j}

\* the type name left out of the key: mapping[measure] = ptype
RECURSIVE MutInsertMeasures(_, _, _, _)
MutInsertMeasures(m, type_name, measurements, ptype) ==
    IF measurements = <<>> THEN m
    ELSE LET key == <<<<>>, measurements[1]>>
             m1 == [x \in DOMAIN m \cup {key} |->
                        IF x = key THEN ptype ELSE m[x]]
         IN MutInsertMeasures(m1, type_name, Tail(measurements), ptype)

\* for measure in measurements: mapping[(type_name, measure)] = ptype
RECURSIVE InsertMeasures(_, _, _, _)
InsertMeasures(m, type_name, measurements, ptype) ==
    IF measurements = <<>> THEN m
    ELSE LET key == <<type_name, measurements[1]>>
             m1 == [x \in DOMAIN m \cup {key} |->
                        IF x = key THEN ptype ELSE m[x]]
         IN InsertMeasures(m1, type_name, Tail(measurements), ptype)

\* for ptype, measurements in proxy_assim2.iteritems(): ..., the first i keys
\* of the iteration order done
RECURSIVE BuildMapping(_, _, _)
BuildMapping(table, order, i) ==
    IF i = 0 THEN <<>>
    ELSE LET e == table[order[i]]
         IN InsertMeasures(BuildMapping(table, order, i - 1),
                           SplitFirst(e.k), e.labels, e.k)

ProxyTypeMapping(table, order) == BuildMapping(table, order, Len(table))

\* the 'data' segment left out
MutProxyDatadir(c, datadir_proxy) ==
    IF datadir_proxy = None
    THEN join(c.core_lmr_path, <<"proxies">>)
    ELSE datadir_proxy

ProxyDatadir(c, datadir_proxy) ==
    IF datadir_proxy = None
    THEN join3(c.core_lmr_path, <<"data">>, <<"proxies">>)
    ELSE datadir_proxy

Pages(h, c, order) ==
    LET datadir == ProxyDatadir(c, c.pages_datadir_proxy)
        h1 == ListCopy(h, c.pages_regions)
        h2 == ListCopy(h1, c.pages_proxy_order)
        h3 == DeepCopyDict(h2, c.pages_proxy_assim2)
        h4 == ListCopy(h3, c.pages_proxy_blacklist)
        h5 == Append(h4, DictObj(
                  << RefEntry(<<"PAGES 2k Region">>, Len(h1)),
                     RefEntry(<<"Resolution (yr)">>, c.pages_proxy_resolution) >>))
    IN [ heap |-> h5,
         inst |->
           [ datadir_proxy |-> datadir,
             datafile_proxy |-> join(datadir, c.pages_datafile_proxy),
             metafile_proxy |-> join(datadir, c.pages_metafile_proxy),
             dataformat_proxy |-> c.pages_dataformat_proxy,
             regions |-> Len(h1),
             proxy_resolution |-> c.pages_proxy_resolution,
             proxy_timeseries_kind |-> c.pages_proxy_timeseries_kind,
             proxy_order |-> Len(h2),
             proxy_assim2 |-> Len(h3),
             proxy_blacklist |-> Len(h4),
             proxy_type_mapping |-> ProxyTypeMapping(TableOf(h3, Len(h3)), order),
             simple_filters |-> Len(h5) ] ]

Ncdc(h, c, order) ==
    LET datadir == ProxyDatadir(c, c.ncdc_datadir_proxy)
        h1 == ListCopy(h, c.ncdc_regions)
        h2 == ListCopy(h1, c.ncdc_proxy_order)
        h3 == DeepCopyDict(h2, c.ncdc_proxy_assim2)
        h4 == ListCopy(h3, c.ncdc_database_filter)
        h5 == ListCopy(h4, c.ncdc_proxy_blacklist)
        h6 == Append(h5, DictObj(
                  << RefEntry(<<"Resolution (yr)">>, c.ncdc_proxy_resolution) >>))
    IN [ heap |-> h6,
         inst |->
           [ datadir_proxy |-> datadir,
             datafile_proxy |-> join(datadir, c.ncdc_datafile_proxy),
             metafile_proxy |-> join(datadir, c.ncdc_metafile_proxy),
             dataformat_proxy |-> c.ncdc_dataformat_proxy,
             regions |-> Len(h1),
             proxy_resolution |-> c.ncdc_proxy_resolution,
             proxy_timeseries_kind |-> c.ncdc_proxy_timeseries_kind,
             proxy_order |-> Len(h2),
             proxy_assim2 |-> Len(h3),
             database_filter |-> Len(h4),
             proxy_blacklist |-> Len(h5),
             proxy_type_mapping |-> ProxyTypeMapping(TableOf(h3, Len(h3)), order),
             simple_filters |-> Len(h6) ] ]

\* proxies.__init__ without keyword arguments
Proxies(h, c, order_pages, order_ncdc) ==
    LET p == Pages(h, c, order_pages)
        n == Ncdc(p.heap, c, order_ncdc)
    IN [ heap |-> n.heap,
         inst |-> [ use_from |-> c.proxies_use_from,
                    proxy_frac |-> c.proxies_proxy_frac,
                    seed |-> c.core_seed,
                    pages |-> p.inst,
                    ncdc |-> n.inst ] ]

\* '-'.join(proxies.use_from), read from the class
UseFromJoined(h, c) == StrJoin(<<"-">>, h[c.proxies_use_from].items)

\* the directory derived whether or not one is given
MutCalibDatadir(c, datadir_calib) ==
    join3(c.core_lmr_path, <<"data">>, <<"analyses">>)

CalibDatadir(c, datadir_calib) ==
    IF datadir_calib = None
    THEN join3(c.core_lmr_path, <<"data">>, <<"analyses">>)
    ELSE datadir_calib

\* psm._linear.__init__, pre_calib_datafile
LinearFilename(h, c) ==
    IF UseFromJoined(h, c) = <<"NCDC">>
    THEN <<"PSMs", "_">> \o UseFromJoined(h, c) \o <<"_">> \o c.ncdc_dbversion
           \o <<"_">> \o c.linear_datatag_calib \o <<".pckl">>
    ELSE <<"PSMs", "_">> \o UseFromJoined(h, c)
           \o <<"_">> \o c.linear_datatag_calib \o <<".pckl">>

\* datafile_calib joined with the calibration directory
MutLinear(h, c) ==
    [ datatag_calib |-> c.linear_datatag_calib,
      datafile_calib |-> join(CalibDatadir(c, c.linear_datadir_calib),
                              c.linear_datafile_calib),
      dataformat_calib |-> c.linear_dataformat_calib,
      psm_r_crit |-> c.linear_psm_r_crit,
      datadir_calib |-> CalibDatadir(c, c.linear_datadir_calib),
      pre_calib_datafile |->
          IF c.linear_pre_calib_datafile = None
          THEN join3(c.core_lmr_path, <<"PSM">>, LinearFilename(h, c))
          ELSE c.linear_pre_calib_datafile ]

Linear(h, c) ==
    [ datatag_calib |-> c.linear_datatag_calib,
      datafile_calib |-> c.linear_datafile_calib,
      dataformat_calib |-> c.linear_dataformat_calib,
      psm_r_crit |-> c.linear_psm_r_crit,
      datadir_calib |-> CalibDatadir(c, c.linear_datadir_calib),
      pre_calib_datafile |->
          IF c.linear_pre_calib_datafile = None
          THEN join3(c.core_lmr_path, <<"PSM">>, LinearFilename(h, c))
          ELSE c.linear_pre_calib_datafile ]

\* psm._linear_TorP.__init__, pre_calib_datafile_T and pre_calib_datafile_P
TorPFilenameT(h, c) ==
    IF UseFromJoined(h, c) = <<"NCDC">>
    THEN <<"PSMs", "_">> \o UseFromJoined(h, c) \o <<"_">> \o c.ncdc_dbversion
           \o <<"_">> \o c.torp_datatag_calib_T \o <<".pckl">>
    ELSE <<"PSMs", "_">> \o UseFromJoined(h, c)
           \o <<"_">> \o c.torp_datatag_calib_T \o <<".pckl">>

TorPFilenameP(h, c) ==
    IF UseFromJoined(h, c) = <<"NCDC">>
    THEN <<"PSMs", "_">> \o UseFromJoined(h, c) \o <<"_">> \o c.ncdc_dbversion
           \o <<"_">> \o c.torp_datatag_calib_P \o <<".pckl">>
    ELSE <<"PSMs", "_">> \o UseFromJoined(h, c)
           \o <<"_">> \o c.torp_datatag_calib_P \o <<".pckl">>

\* the instance attributes _linear_TorP.__init__ sets (it does not call
\* _linear.__init__)
LinearTorP(h, c) ==
    [ datatag_calib_T |-> c.torp_datatag_calib_T,
      datafile_calib_T |-> c.torp_datafile_calib_T,
      datatag_calib_P |-> c.torp_datatag_calib_P,
      datafile_calib_P |-> c.torp_datafile_calib_P,
      dataformat_calib |-> c.torp_dataformat_calib,
      psm_r_crit |-> c.torp_psm_r_crit,
      datadir_calib |-> CalibDatadir(c, c.torp_datadir_calib),
      pre_calib_datafile_T |->
          IF c.torp_pre_calib_datafile_T = None
          THEN join3(c.core_lmr_path, <<"PSM">>, TorPFilenameT(h, c))
          ELSE c.torp_pre_calib_datafile_T,
      pre_calib_datafile_P |->
          IF c.torp_pre_calib_datafile_P = None
          THEN join3(c.core_lmr_path, <<"PSM">>, TorPFilenameP(h, c))
          ELSE c.torp_pre_calib_datafile_P ]

\* inst.<name> for an instance of _linear_TorP(_linear): the attribute the
\* instance holds, or else the class attribute _linear_TorP inherits from
\* _linear, as it stands at the time
TorPGetattr(c, inst, name) ==
    IF name \in DOMAIN inst THEN inst[name]
    ELSE CASE name = "pre_calib_datafile" -> c.linear_pre_calib_datafile
           [] name = "datatag_calib" -> c.linear_datatag_calib
           [] name = "datafile_calib" -> c.linear_datafile_calib

\* the two calibration tags in the other order
MutBilinearFilename(h, c) ==
    IF UseFromJoined(h, c) = <<"NCDC">>
    THEN <<"PSMs", "_">> \o UseFromJoined(h, c) \o <<"_">> \o c.ncdc_dbversion
           \o <<"_">> \o c.bilinear_datatag_calib_P
           \o <<"_">> \o c.bilinear_datatag_calib_T \o <<".pckl">>
    ELSE <<"PSMs", "_">> \o UseFromJoined(h, c)
           \o <<"_">> \o c.bilinear_datatag_calib_P
           \o <<"_">> \o c.bilinear_datatag_calib_T \o <<".pckl">>

\* psm._bilinear.__init__, pre_calib_datafile
BilinearFilename(h, c) ==
    IF UseFromJoined(h, c) = <<"NCDC">>
    THEN <<"PSMs", "_">> \o UseFromJoined(h, c) \o <<"_">> \o c.ncdc_dbversion
           \o <<"_">> \o c.bilinear_datatag_calib_T
           \o <<"_">> \o c.bilinear_datatag_calib_P \o <<".pckl">>
    ELSE <<"PSMs", "_">> \o UseFromJoined(h, c)
           \o <<"_">> \o c.bilinear_datatag_calib_T
           \o <<"_">> \o c.bilinear_datatag_calib_P \o <<".pckl">>

Bilinear(h, c) ==
    [ datatag_calib_T |-> c.bilinear_datatag_calib_T,
      datafile_calib_T |-> c.bilinear_datafile_calib_T,
      dataformat_calib_T |-> c.bilinear_dataformat_calib_T,
      datatag_calib_P |-> c.bilinear_datatag_calib_P,
      datafile_calib_P |-> c.bilinear_datafile_calib_P,
      dataformat_calib_P |-> c.bilinear_dataformat_calib_P,
      psm_r_crit |-> c.bilinear_psm_r_crit,
      datadir_calib |-> CalibDatadir(c, c.bilinear_datadir_calib),
      pre_calib_datafile |->
          IF c.bilinear_pre_calib_datafile = None
          THEN join3(c.core_lmr_path, <<"PSM">>, BilinearFilename(h, c))
          ELSE c.bilinear_pre_calib_datafile ]

HInterp(c) ==
    [ radius_influence |-> c.hinterp_radius_influence,
      datadir_obsError |-> c.hinterp_datadir_obsError,
      filename_obsError |-> c.hinterp_filename_obsError,
      dataformat_obsError |-> c.hinterp_dataformat_obsError,
      datafile_obsError |->
          IF c.hinterp_datafile_obsError = None
          THEN join(c.hinterp_datadir_obsError, c.hinterp_filename_obsError)
          ELSE c.hinterp_datafile_obsError ]

\* psm.__init__ without keyword arguments
Psm(h, c) ==
    [ use_psm |-> c.psm_use_psm,
      linear |-> Linear(h, c),
      linear_TorP |-> LinearTorP(h, c),
      bilinear |-> Bilinear(h, c),
      h_interp |-> HInterp(c) ]

\* the directory of the prior stops at data/model
MutPrior(h, c) ==
    LET h1 == ListCopy(h, c.prior_state_variables)
    IN [ heap |-> h1,
         inst |->
           [ prior_source |-> c.prior_prior_source,
             datafile_prior |-> c.prior_datafile_prior,
             dataformat_prior |-> c.prior_dataformat_prior,
             state_variables |-> Len(h1),
             psm_required_variables |-> c.prior_psm_required_variables,
             detrend |-> c.prior_detrend,
             state_kind |-> c.prior_state_kind,
             seed |-> c.core_seed,
             datadir_prior |->
                 IF c.prior_datadir_prior = None
                 THEN join3(c.core_lmr_path, <<"data">>, <<"model">>)
                 ELSE c.prior_datadir_prior ] ]

Prior(h, c) ==
    LET h1 == ListCopy(h, c.prior_state_variables)
    IN [ heap |-> h1,
         inst |->
           [ prior_source |-> c.prior_prior_source,
             datafile_prior |-> c.prior_datafile_prior,
             dataformat_prior |-> c.prior_dataformat_prior,
             state_variables |-> Len(h1),
             psm_required_variables |-> c.prior_psm_required_variables,
             detrend |-> c.prior_detrend,
             state_kind |-> c.prior_state_kind,
             seed |-> c.core_seed,
             datadir_prior |->
                 IF c.prior_datadir_prior = None
                 THEN join4(c.core_lmr_path, <<"data">>, <<"model">>,
                            c.prior_prior_source)
                 ELSE c.prior_datadir_prior ] ]

(***************************************************************************)
(* The state machine.                                                      *)
(*   cls      the class attributes                                         *)
(*   heap     the list and dict objects                                    *)
(*   configs  the Config instances built so far, the last one possibly     *)
(*            still inside Config.__init__                                 *)
(*   pc       "idle", or the group Config.__init__ instantiates next       *)
(*   edits, muts, calls  how many class attributes were assigned,          *)
(*            containers mutated, resolvers called on their own            *)
(*   result   the outcome of the last call of a resolver on its own        *)
(*   scan     the loop that fills proxy_type_mapping, taken key by key     *)
(***************************************************************************)
Unresolved == [unresolved |-> TRUE]

EmptyConfig ==
    [ done |-> <<>>, wrapper |-> Unresolved, core |-> Unresolved,
      proxies |-> Unresolved, psm |-> Unresolved, prior |-> Unresolved ]

NoResult == [call |-> "", kwargs |-> <<>>, raised |-> "", inst |-> Unresolved]

NoScan == [group |-> "", order |-> <<>>, i |-> 0, mapping |-> <<>>]

Init ==
    /\ cls = ClassDefaults
    /\ heap = ClassHeap
    /\ configs = <<>>
    /\ pc = "idle"
    /\ edits = 0
    /\ muts = 0
    /\ calls = 0
    /\ result = NoResult
    /\ scan = NoScan

\* the groups whose attributes a group's resolver reads
ReadsFrom(g) ==
    CASE g = "wrapper" -> {}
      [] g = "core" -> {"wrapper"}
      [] g = "proxies" -> {"core"}
      [] g = "psm" -> {"core", "proxies"}
      [] g = "prior" -> {"core"}

\* psm() moved ahead of proxies()
MutConfigOrder == <<"wrapper", "core", "psm", "proxies", "prior">>

\* the order of the statements of Config.__init__
ConfigOrder == <<"wrapper", "core", "proxies", "psm", "prior">>

IndexOf(g) == CHOOSE i \in 1..Len(ConfigOrder) : ConfigOrder[i] = g

After(g) ==
    IF IndexOf(g) = Len(ConfigOrder) THEN "idle" ELSE ConfigOrder[IndexOf(g) + 1]

Cur == Len(configs)

Resolved(cfg, g) == g \in Range(cfg.done)

\* Config() is called
NewConfig ==
    /\ pc = "idle"
    /\ Len(configs) < MaxConfigs
    /\ configs' = Append(configs, EmptyConfig)
    /\ pc' = ConfigOrder[1]
    /\ UNCHANGED <<cls, heap, edits, muts, calls, result, scan>>

ResolveWrapper ==
    /\ pc = "wrapper"
    /\ configs' = [configs EXCEPT ![Cur].wrapper = Wrapper(cls),
                                  ![Cur].done = Append(@, "wrapper")]
    /\ pc' = After("wrapper")
    /\ UNCHANGED <<cls, heap, edits, muts, calls, result, scan>>

\* core() leaves a mark on the class: core.seed is advanced
MutResolveCore ==
    /\ pc = "core"
    /\ configs' = [configs EXCEPT ![Cur].core = Core(cls, <<>>),
                                  ![Cur].done = Append(@, "core")]
    /\ cls' = [cls EXCEPT !.core_seed = @ + 1]
    /\ pc' = After("core")
    /\ UNCHANGED <<heap, edits, muts, calls, result, scan>>

ResolveCore ==
    /\ pc = "core"
    /\ configs' = [configs EXCEPT ![Cur].core = Core(cls, <<>>),
                                  ![Cur].done = Append(@, "core")]
    /\ pc' = After("core")
    /\ UNCHANGED <<cls, heap, edits, muts, calls, result, scan>>

\* the tables already iterated over and the mappings that came out of them,
\* for proxies groups whose table still stands as it was copied
Iterated(h) ==
    LET ps == {configs[i].proxies : i \in {j \in 1..Len(configs) :
                                             Resolved(configs[j], "proxies")}}
              \cup (IF result.call = "proxies" /\ result.raised = ""
                    THEN {result.inst} ELSE {})
        gs == {p.pages : p \in ps} \cup {p.ncdc : p \in ps}
    IN {<<TableOf(h, g.proxy_assim2), g.proxy_type_mapping>> : g \in gs}

\* The orders iteritems() can take over the copies of the two tables.  A copy
\* is filled by the same insertions each time, so a table that was copied
\* and iterated over before is iterated over in the same order again.
IterPairs(h, c) ==
    LET tp == TableOf(h, c.pages_proxy_assim2)
        tn == TableOf(h, c.ncdc_proxy_assim2)
        all == IterOrders(Len(tp)) \X IterOrders(Len(tn))
        same == {o \in all :
                   LET mp == ProxyTypeMapping(tp, o[1])
                       mn == ProxyTypeMapping(tn, o[2])
                   IN /\ tp = tn => mp = mn
                      /\ \A k \in Iterated(h) : /\ k[1] = tp => k[2] = mp
                                                /\ k[1] = tn => k[2] = mn}
    IN IF same = {} THEN all ELSE same

ResolveProxies ==
    /\ pc = "proxies"
    /\ \E o \in IterPairs(heap, cls) :
          LET r == Proxies(heap, cls, o[1], o[2])
          IN /\ heap' = r.heap
             /\ configs' = [configs EXCEPT ![Cur].proxies = r.inst,
                                           ![Cur].done = Append(@, "proxies")]
    /\ pc' = After("proxies")
    /\ UNCHANGED <<cls, edits, muts, calls, result, scan>>

\* psm() writes the directory it derives to the class
MutResolvePsm ==
    /\ pc = "psm"
    /\ configs' = [configs EXCEPT ![Cur].psm = Psm(heap, cls),
                                  ![Cur].done = Append(@, "psm")]
    /\ cls' = [cls EXCEPT !.linear_datadir_calib =
                              CalibDatadir(cls, cls.linear_datadir_calib)]
    /\ pc' = After("psm")
    /\ UNCHANGED <<heap, edits, muts, calls, result, scan>>

ResolvePsm ==
    /\ pc = "psm"
    /\ configs' = [configs EXCEPT ![Cur].psm = Psm(heap, cls),
                                  ![Cur].done = Append(@, "psm")]
    /\ pc' = After("psm")
    /\ UNCHANGED <<cls, heap, edits, muts, calls, result, scan>>

ResolvePrior ==
    /\ pc = "prior"
    /\ LET r == Prior(heap, cls)
       IN /\ heap' = r.heap
          /\ configs' = [configs EXCEPT ![Cur].prior = r.inst,
                                        ![Cur].done = Append(@, "prior")]
    /\ pc' = After("prior")
    /\ UNCHANGED <<cls, edits, muts, calls, result, scan>>

Construct ==
    \/ NewConfig
    \/ ResolveWrapper
    \/ ResolveCore
    \/ ResolveProxies
    \/ ResolvePsm
    \/ ResolvePrior

(***************************************************************************)
(* The caller assigns class attributes between constructions ("altering    *)
(* values on the fly").                                                    *)
(***************************************************************************)
AttrChoices ==
    { <<"core_lmr_path", <<"/", "data", "/", "LMR">> >>,
      <<"core_lmr_path", <<"/", "data", "/", "LMR", "/">> >>,
      <<"ncdc_dbversion", <<"v0.0.0">> >>,
      <<"linear_datatag_calib", <<"MLOST">> >>,
      <<"bilinear_datatag_calib_P", <<"GPCC">> >>,
      <<"pages_datafile_proxy", <<"sub", "/", "P.pckl">> >>,
      <<"ncdc_metafile_proxy", <<"M.pckl">> >> }

UseFromChoices ==
    { << <<"pages">> >>, << <<"NCDC">>, <<"pages">> >>, << <<"NCDC">> >>, <<>> }

\* classification tables, as sequences of <<key, labels>> in declaration order
TableChoices ==
    { << [k |-> <<"A", "_", "x">>, labels |-> << <<"p">>, <<"q">> >>],
         [k |-> <<"B", "_", "y">>, labels |-> << <<"q">> >>] >>,
      << [k |-> <<"A", "_", "x">>, labels |-> << <<"q">> >>],
         [k |-> <<"A", "_", "y", "_", "z">>, labels |-> << <<"q">>, <<"r">> >>] >>,
      << [k |-> <<"C">>, labels |-> << <<"p">>, <<"p">> >>],
         [k |-> <<"C", "_", "w">>, labels |-> << <<"p">> >>],
         [k |-> <<"D", "_", "w">>, labels |-> << <<"p">> >>] >> }

SetAttr(f, v) ==
    /\ pc = "idle"
    /\ edits < MaxEdits
    /\ cls[f] # v
    /\ cls' = [cls EXCEPT ![f] = v]
    /\ edits' = edits + 1
    /\ UNCHANGED <<heap, configs, pc, muts, calls, result, scan>>

\* proxies.use_from = [...]
SetUseFrom(items) ==
    /\ pc = "idle"
    /\ edits < MaxEdits
    /\ heap' = Append(heap, ListObj(items))
    /\ cls' = [cls EXCEPT !.proxies_use_from = Len(heap) + 1]
    /\ edits' = edits + 1
    /\ UNCHANGED <<configs, pc, muts, calls, result, scan>>

\* the heap with a new dict of lists holding table, the dict allocated last
AllocTable(h, table) ==
    LET n == Len(table)
    IN Append(h \o [i \in 1..n |-> ListObj(table[i].labels)],
              DictObj([i \in 1..n |-> RefEntry(table[i].k, Len(h) + i)]))

\* proxies._pages.proxy_assim2 = {...} or proxies._ncdc.proxy_assim2 = {...}
SetAssim2(f, table) ==
    /\ pc = "idle"
    /\ edits < MaxEdits
    /\ heap' = AllocTable(heap, table)
    /\ cls' = [cls EXCEPT ![f] = Len(heap) + Len(table) + 1]
    /\ edits' = edits + 1
    /\ UNCHANGED <<configs, pc, muts, calls, result, scan>>

Edit ==
    \/ \E fv \in AttrChoices : SetAttr(fv[1], fv[2])
    \/ \E items \in UseFromChoices : SetUseFrom(items)
    \/ \E f \in {"pages_proxy_assim2", "ncdc_proxy_assim2"}, t \in TableChoices :
          SetAssim2(f, t)

Next == Construct \/ Edit

Spec == Init /\ [][Next]_vars

(***************************************************************************)
(* A consumer mutates, in place, a container it reaches through a built    *)
(* Config: x.append(item), d[key] = value.                                 *)
(***************************************************************************)
\* the list- and dict-valued attributes of a built Config, by name
InstFields(cfg) ==
    [ use_from |-> cfg.proxies.use_from,
      pages_regions |-> cfg.proxies.pages.regions,
      pages_proxy_resolution |-> cfg.proxies.pages.proxy_resolution,
      pages_proxy_order |-> cfg.proxies.pages.proxy_order,
      pages_proxy_assim2 |-> cfg.proxies.pages.proxy_assim2,
      pages_proxy_blacklist |-> cfg.proxies.pages.proxy_blacklist,
      pages_simple_filters |-> cfg.proxies.pages.simple_filters,
      ncdc_regions |-> cfg.proxies.ncdc.regions,
      ncdc_proxy_resolution |-> cfg.proxies.ncdc.proxy_resolution,
      ncdc_database_filter |-> cfg.proxies.ncdc.database_filter,
      ncdc_proxy_order |-> cfg.proxies.ncdc.proxy_order,
      ncdc_proxy_assim2 |-> cfg.proxies.ncdc.proxy_assim2,
      ncdc_proxy_blacklist |-> cfg.proxies.ncdc.proxy_blacklist,
      ncdc_simple_filters |-> cfg.proxies.ncdc.simple_filters,
      use_psm |-> cfg.psm.use_psm,
      state_variables |-> cfg.prior.state_variables,
      psm_required_variables |-> cfg.prior.psm_required_variables ]

\* the same attributes of the classes; simple_filters is no class attribute
ClassFields(c) ==
    [ use_from |-> c.proxies_use_from,
      pages_regions |-> c.pages_regions,
      pages_proxy_resolution |-> c.pages_proxy_resolution,
      pages_proxy_order |-> c.pages_proxy_order,
      pages_proxy_assim2 |-> c.pages_proxy_assim2,
      pages_proxy_blacklist |-> c.pages_proxy_blacklist,
      ncdc_regions |-> c.ncdc_regions,
      ncdc_proxy_resolution |-> c.ncdc_proxy_resolution,
      ncdc_database_filter |-> c.ncdc_database_filter,
      ncdc_proxy_order |-> c.ncdc_proxy_order,
      ncdc_proxy_assim2 |-> c.ncdc_proxy_assim2,
      ncdc_proxy_blacklist |-> c.ncdc_proxy_blacklist,
      use_psm |-> c.psm_use_psm,
      state_variables |-> c.prior_state_variables,
      psm_required_variables |-> c.prior_psm_required_variables ]

\* the objects a dict's entries refer to
ValuesOf(h, a) == {h[a].entries[i].ref : i \in 1..Len(h[a].entries)} \ {0}

\* the addresses reached from a set of attribute values
Reach(h, addrs) ==
    addrs \cup UNION {ValuesOf(h, a) : a \in {x \in addrs : h[x].kind = "dict"}}

Complete(cfg) == Len(cfg.done) = Len(ConfigOrder)

Held(h, cfg) == Reach(h, Range(InstFields(cfg)))

\* d[k] = value: the entry replaced when the key is there, added when not
DictSet(entries, e) ==
    IF \E i \in 1..Len(entries) : entries[i].k = e.k
    THEN [i \in 1..Len(entries) |-> IF entries[i].k = e.k THEN e ELSE entries[i]]
    ELSE Append(entries, e)

\* configs[i].<...>.append(item)
AppendToList(i, a) ==
    /\ pc = "idle"
    /\ muts < MaxMuts
    /\ Complete(configs[i])
    /\ a \in Held(heap, configs[i])
    /\ heap[a].kind = "list"
    /\ heap' = [heap EXCEPT ![a].items = Append(@, <<"appended">>)]
    /\ muts' = muts + 1
    /\ UNCHANGED <<cls, configs, pc, edits, calls, result, scan>>

\* configs[i].<...>['New_key'] = ['label'] (use_psm: = 'h_interp')
SetKey(i, a) ==
    /\ pc = "idle"
    /\ muts < MaxMuts
    /\ Complete(configs[i])
    /\ a \in Held(heap, configs[i])
    /\ heap[a].kind = "dict"
    /\ IF a = configs[i].psm.use_psm
       THEN heap' = [heap EXCEPT ![a].entries =
                        DictSet(@, StrEntry(<<"New", "_", "key">>, <<"h", "_", "interp">>))]
       ELSE heap' = Append([heap EXCEPT ![a].entries =
                               DictSet(@, RefEntry(<<"New", "_", "key">>, Len(heap) + 1))],
                           ListObj(<< <<"label">> >>))
    /\ muts' = muts + 1
    /\ UNCHANGED <<cls, configs, pc, edits, calls, result, scan>>

Mutate ==
    \/ \E i \in 1..Len(configs), a \in 1..Len(heap) : AppendToList(i, a)
    \/ \E i \in 1..Len(configs), a \in 1..Len(heap) : SetKey(i, a)

NextAlias == Construct \/ Mutate

SpecAlias == Init /\ [][NextAlias]_vars

(***************************************************************************)
(* A resolver called on its own with keyword arguments, proxies and psm.   *)
(* Both hand their keyword arguments on to the __init__ of their nested    *)
(* groups, every one of which is declared  def __init__(self).             *)
(***************************************************************************)
KwargsChoices ==
    { <<>>,
      [proxy_frac |-> <<"0.5">>],
      [datadir_proxy |-> <<"/", "tmp">>],
      [psm_r_crit |-> <<"0.2">>],
      [use_psm |-> <<"bilinear">>],
      [no_such_field |-> <<"x">>] }

\* calling  def __init__(self)  with keyword arguments kw
RaisesTypeError(kw) == DOMAIN kw # {}

\* proxies called with kw: lines 507-509 run, then self._pages is called with kw
CallProxies(kw) ==
    /\ pc = "idle"
    /\ calls < MaxCalls
    /\ IF RaisesTypeError(kw)
       THEN /\ result' = [call |-> "proxies", kwargs |-> kw,
                          raised |-> "TypeError", inst |-> Unresolved]
            /\ heap' = heap
       ELSE \E o \in IterPairs(heap, cls) :
               LET r == Proxies(heap, cls, o[1], o[2])
               IN /\ result' = [call |-> "proxies", kwargs |-> kw,
                                raised |-> "", inst |-> r.inst]
                  /\ heap' = r.heap
    /\ calls' = calls + 1
    /\ UNCHANGED <<cls, configs, pc, edits, muts, scan>>

\* psm called with kw: line 884 runs, then self._linear is called with kw
CallPsm(kw) ==
    /\ pc = "idle"
    /\ calls < MaxCalls
    /\ IF RaisesTypeError(kw)
       THEN result' = [call |-> "psm", kwargs |-> kw,
                       raised |-> "TypeError", inst |-> Unresolved]
       ELSE result' = [call |-> "psm", kwargs |-> kw,
                       raised |-> "", inst |-> Psm(heap, cls)]
    /\ calls' = calls + 1
    /\ UNCHANGED <<cls, heap, configs, pc, edits, muts, scan>>

Call ==
    \/ \E kw \in KwargsChoices : CallProxies(kw)
    \/ \E kw \in KwargsChoices : CallPsm(kw)

NextCalls == Edit \/ Call

SpecCalls == Init /\ [][NextCalls]_vars

(***************************************************************************)
(* Config() called again and again with nothing done in between, the class *)
(* bodies holding the classification tables above or other tables.         *)
(***************************************************************************)
\* class state s with table t written as the proxy_assim2 the field f names
WithTable(s, f, t) ==
    [ heap |-> AllocTable(s.heap, t),
      cls |-> [s.cls EXCEPT ![f] = Len(s.heap) + Len(t) + 1] ]

InitTables ==
    /\ \E tp, tn \in TableChoices \cup {<<>>} :
          LET s0 == [heap |-> ClassHeap, cls |-> ClassDefaults]
              s1 == IF tp = <<>> THEN s0
                    ELSE WithTable(s0, "pages_proxy_assim2", tp)
              s2 == IF tn = <<>> THEN s1
                    ELSE WithTable(s1, "ncdc_proxy_assim2", tn)
          IN /\ cls = s2.cls
             /\ heap = s2.heap
    /\ configs = <<>>
    /\ pc = "idle"
    /\ edits = 0
    /\ muts = 0
    /\ calls = 0
    /\ result = NoResult
    /\ scan = NoScan

NextTwice == Construct

SpecTwice == InitTables /\ [][NextTwice]_vars

(***************************************************************************)
(* The groups instantiated by a caller one at a time, in an order of the   *)
(* caller's choosing, and gathered in a holder Config.__init__ had no part *)
(* in filling.                                                             *)
(***************************************************************************)
\* prior takes its seed from the core instance of the holder, -1 standing
\* for the error raised when there is none yet
MutInstantiate(g, h, c, o) ==
    CASE g = "wrapper" -> [heap |-> h, inst |-> Wrapper(c)]
      [] g = "core" -> [heap |-> h, inst |-> Core(c, <<>>)]
      [] g = "proxies" -> Proxies(h, c, o[1], o[2])
      [] g = "psm" -> [heap |-> h, inst |-> Psm(h, c)]
      [] g = "prior" ->
           LET r == Prior(h, c)
           IN [ heap |-> r.heap,
                inst |-> [r.inst EXCEPT !.seed =
                             IF Resolved(configs[Cur], "core")
                             THEN configs[Cur].core.seed ELSE -1] ]

\* group g instantiated with no arguments; o the iteration orders of the
\* two tables, of use to proxies alone
Instantiate(g, h, c, o) ==
    CASE g = "wrapper" -> [heap |-> h, inst |-> Wrapper(c)]
      [] g = "core" -> [heap |-> h, inst |-> Core(c, <<>>)]
      [] g = "proxies" -> Proxies(h, c, o[1], o[2])
      [] g = "psm" -> [heap |-> h, inst |-> Psm(h, c)]
      [] g = "prior" -> Prior(h, c)

StartAlone ==
    /\ pc = "idle"
    /\ Len(configs) < MaxConfigs
    /\ configs' = Append(configs, EmptyConfig)
    /\ pc' = "alone"
    /\ UNCHANGED <<cls, heap, edits, muts, calls, result, scan>>

\* the holder's done lists the groups it holds, whatever order they came in
ResolveAlone(g) ==
    /\ pc = "alone"
    /\ ~Resolved(configs[Cur], g)
    /\ \E o \in (IF g = "proxies" THEN IterPairs(heap, cls) ELSE {<<>>}) :
          LET r == Instantiate(g, heap, cls, o)
              held == Range(configs[Cur].done) \cup {g}
          IN /\ heap' = r.heap
             /\ configs' = [configs EXCEPT
                   ![Cur] = [[@ EXCEPT ![g] = r.inst] EXCEPT
                               !.done = SelectSeq(ConfigOrder,
                                                  LAMBDA x : x \in held)]]
             /\ pc' = IF held = Range(ConfigOrder) THEN "idle" ELSE "alone"
    /\ UNCHANGED <<cls, edits, muts, calls, result, scan>>

Alone ==
    \/ StartAlone
    \/ \E g \in Range(ConfigOrder) : ResolveAlone(g)

NextAnyOrder == Construct \/ Alone

SpecAnyOrder == InitTables /\ [][NextAnyOrder]_vars

(***************************************************************************)
(* The caller sets parameters between constructions: the root path, the    *)
(* seed, the iteration range, the prior source, the database version.      *)
(* core is also called on its own, with and without curr_iter.             *)
(***************************************************************************)
ParamChoices ==
    { <<"core_lmr_path", <<"/", "data", "/", "LMR">> >>,
      <<"core_seed", 7>>,
      <<"wrapper_iter_range", <<1, 5>> >>,
      <<"prior_prior_source", <<"gfdl", "_", "cm3">> >>,
      <<"ncdc_dbversion", <<"v0.0.0">> >> }

EditParams == \E fv \in ParamChoices : SetAttr(fv[1], fv[2])

\* <<>> for no curr_iter, <<n>> for curr_iter=n
CurrIterChoices == {<<>>, <<3>>}

\* core called on its own
CallCore(curr_iter) ==
    /\ pc = "idle"
    /\ calls < MaxCalls
    /\ result' = [call |-> "core", kwargs |-> [curr_iter |-> curr_iter],
                  raised |-> "", inst |-> Core(cls, curr_iter)]
    /\ calls' = calls + 1
    /\ UNCHANGED <<cls, heap, configs, pc, edits, muts, scan>>

NextParams ==
    \/ Construct
    \/ EditParams
    \/ \E ci \in CurrIterChoices : CallCore(ci)

SpecParams == Init /\ [][NextParams]_vars

(***************************************************************************)
(* The caller gives the fields that are derived when left at None a value  *)
(* of its own, and may move the root path as well.                         *)
(***************************************************************************)
ExplicitChoices ==
    { <<"core_lmr_path", <<"/", "data", "/", "LMR">> >>,
      <<"pages_datadir_proxy", <<"/", "my", "/", "pages">> >>,
      <<"ncdc_datadir_proxy", <<"/", "my", "/", "ncdc">> >>,
      <<"linear_datadir_calib", <<"/", "my", "/", "calib">> >>,
      <<"torp_datadir_calib", <<"/", "my", "/", "calib">> >>,
      <<"bilinear_datadir_calib", <<"/", "my", "/", "calib">> >>,
      <<"linear_pre_calib_datafile", <<"/", "my", "/", "pre.pckl">> >>,
      <<"torp_pre_calib_datafile_T", <<"/", "my", "/", "pre", "_", "T.pckl">> >>,
      <<"torp_pre_calib_datafile_P", <<"/", "my", "/", "pre", "_", "P.pckl">> >>,
      <<"bilinear_pre_calib_datafile", <<"/", "my", "/", "pre.pckl">> >>,
      <<"hinterp_datafile_obsError", <<"/", "my", "/", "R.txt">> >>,
      <<"prior_datadir_prior", <<"/", "my", "/", "prior">> >> }

EditExplicit == \E fv \in ExplicitChoices : SetAttr(fv[1], fv[2])

NextExplicit == Construct \/ EditExplicit

SpecExplicit == Init /\ [][NextExplicit]_vars

(***************************************************************************)
(* The loop of lines 309-314 and 496-500 over the tables as shipped, taken *)
(* one key at a time in an iteration order fixed when the loop starts.     *)
(***************************************************************************)
\* proxies._pages.proxy_order as shipped
ShippedPagesOrder ==
    << <<"Tree ring", "_", "Width">>, <<"Tree ring", "_", "Density">>,
       <<"Ice core", "_", "d18O">>, <<"Ice core", "_", "d2H">>,
       <<"Ice core", "_", "Accumulation">>, <<"Coral", "_", "d18O">>,
       <<"Coral", "_", "Luminescence">>, <<"Lake sediment", "_", "All">>,
       <<"Marine sediment", "_", "All">>, <<"Speleothem", "_", "All">> >>

\* proxies._pages.proxy_assim2 as shipped, the keys in the order they are written
ShippedPagesTable ==
    <<
      [k |-> <<"Tree ring", "_", "Width">>, labels |-> << <<"Ring width">>,
          <<"Tree ring width">>, <<"Total ring width">>, <<"TRW">> >>],
      [k |-> <<"Tree ring", "_", "Density">>, labels |-> <<
          <<"Maximum density">>, <<"Minimum density">>,
          <<"Earlywood density">>, <<"Latewood density">>, <<"MXD">> >>],
      [k |-> <<"Ice core", "_", "d18O">>, labels |-> << <<"d18O">> >>],
      [k |-> <<"Ice core", "_", "d2H">>, labels |-> << <<"d2H">> >>],
      [k |-> <<"Ice core", "_", "Accumulation">>, labels |-> <<
          <<"Accumulation">> >>],
      [k |-> <<"Coral", "_", "d18O">>, labels |-> << <<"d18O">> >>],
      [k |-> <<"Coral", "_", "Luminescence">>, labels |-> <<
          <<"Luminescence">> >>],
      [k |-> <<"Lake sediment", "_", "All">>, labels |-> <<
          <<"Varve thickness">>, <<"Thickness">>,
          <<"Mass accumulation rate">>,
          <<"Particle", "-", "size distribution">>, <<"Organic matter">>,
          <<"X", "-", "ray density">> >>],
      [k |-> <<"Marine sediment", "_", "All">>, labels |-> <<
          <<"Mg", "/", "Ca">> >>],
      [k |-> <<"Speleothem", "_", "All">>, labels |-> <<
          <<"Lamina thickness">> >>]
    >>

\* proxies._ncdc.proxy_order as shipped
ShippedNcdcOrder ==
    << <<"Tree Rings", "_", "WoodDensity">>,
       <<"Tree Rings", "_", "WidthPages">>,
       <<"Tree Rings", "_", "WidthPages2">>,
       <<"Tree Rings", "_", "Isotopes">>,
       <<"Corals and Sclerosponges", "_", "d18O">>,
       <<"Corals and Sclerosponges", "_", "SrCa">>,
       <<"Corals and Sclerosponges", "_", "Rates">>,
       <<"Ice Cores", "_", "d18O">>, <<"Ice Cores", "_", "dD">>,
       <<"Ice Cores", "_", "Accumulation">>,
       <<"Ice Cores", "_", "MeltFeature">>, <<"Lake Cores", "_", "Varve">>,
       <<"Lake Cores", "_", "BioMarkers">>, <<"Lake Cores", "_", "GeoChem">>,
       <<"Marine Cores", "_", "d18O">> >>

\* proxies._ncdc.proxy_assim2 as shipped, the keys in the order they are written
ShippedNcdcTable ==
    <<
      [k |-> <<"Corals and Sclerosponges", "_", "d18O">>, labels |-> <<
          <<"d18O">>, <<"delta18O">>, <<"d18o">>, <<"d18O", "_", "stk">>,
          <<"d18O", "_", "int">>, <<"d18O", "_", "norm">>,
          <<"d18o", "_", "avg">>, <<"d18o", "_", "ave">>, <<"dO18">>,
          <<"d18O", "_", "4">> >>],
      [k |-> <<"Corals and Sclerosponges", "_", "d14C">>, labels |-> <<
          <<"d14C">>, <<"d14c">>, <<"ac", "_", "d14c">> >>],
      [k |-> <<"Corals and Sclerosponges", "_", "d13C">>, labels |-> <<
          <<"d13C">>, <<"d13c">>, <<"d13c", "_", "ave">>,
          <<"d13c", "_", "ann", "_", "ave">>, <<"d13C", "_", "int">> >>],
      [k |-> <<"Corals and Sclerosponges", "_", "SrCa">>, labels |-> <<
          <<"Sr", "/", "Ca">>, <<"Sr", "/", "Ca", "_", "norm">>,
          <<"Sr", "/", "Ca", "_", "anom">>, <<"Sr", "/", "Ca", "_", "int">> >>],
      [k |-> <<"Corals and Sclerosponges", "_", "Sr">>, labels |-> << <<"Sr">> >>],
      [k |-> <<"Corals and Sclerosponges", "_", "BaCa">>, labels |-> <<
          <<"Ba", "/", "Ca">> >>],
      [k |-> <<"Corals and Sclerosponges", "_", "CdCa">>, labels |-> <<
          <<"Cd", "/", "Ca">> >>],
      [k |-> <<"Corals and Sclerosponges", "_", "MgCa">>, labels |-> <<
          <<"Mg", "/", "Ca">> >>],
      [k |-> <<"Corals and Sclerosponges", "_", "UCa">>, labels |-> <<
          <<"U", "/", "Ca">>, <<"U", "/", "Ca", "_", "anom">> >>],
      [k |-> <<"Corals and Sclerosponges", "_", "Pb">>, labels |-> << <<"Pb">> >>],
      [k |-> <<"Corals and Sclerosponges", "_", "Rates">>, labels |-> <<
          <<"ext">>, <<"calc">> >>],
      [k |-> <<"Ice Cores", "_", "d18O">>, labels |-> << <<"d18O">>,
          <<"delta18O">>, <<"delta18o">>, <<"d18o">>, <<"d18o", "_", "int">>,
          <<"d18O", "_", "int">>, <<"d18O", "_", "norm">>,
          <<"d18o", "_", "norm">>, <<"dO18">>, <<"d18O", "_", "anom">> >>],
      [k |-> <<"Ice Cores", "_", "dD">>, labels |-> << <<"deltaD">>,
          <<"delD">> >>],
      [k |-> <<"Ice Cores", "_", "Accumulation">>, labels |-> << <<"accum">>,
          <<"accumu">> >>],
      [k |-> <<"Ice Cores", "_", "MeltFeature">>, labels |-> << <<"MFP">> >>],
      [k |-> <<"Lake Cores", "_", "Varve">>, labels |-> << <<"varve">>,
          <<"varve", "_", "thickness">>, <<"varve thickness">> >>],
      [k |-> <<"Lake Cores", "_", "BioMarkers">>, labels |-> << <<"Uk37">>,
          <<"TEX86">> >>],
      [k |-> <<"Lake Cores", "_", "GeoChem">>, labels |-> <<
          <<"Sr", "/", "Ca">>, <<"Mg", "/", "Ca">>, <<"Cl", "_", "cont">> >>],
      [k |-> <<"Marine Cores", "_", "d18O">>, labels |-> << <<"d18O">> >>],
      [k |-> <<"Speleothems", "_", "d18O">>, labels |-> << <<"d18O">> >>],
      [k |-> <<"Speleothems", "_", "d13C">>, labels |-> << <<"d13C">> >>],
      [k |-> <<"Tree Rings", "_", "WidthBreit">>, labels |-> <<
          <<"trsgi", "_", "breit">> >>],
      [k |-> <<"Tree Rings", "_", "WidthPages2">>, labels |-> << <<"trsgi">> >>],
      [k |-> <<"Tree Rings", "_", "WidthPages">>, labels |-> << <<"TRW">>,
          <<"ERW">>, <<"LRW">> >>],
      [k |-> <<"Tree Rings", "_", "WoodDensity">>, labels |-> <<
          <<"max", "_", "d">>, <<"min", "_", "d">>, <<"early", "_", "d">>,
          <<"earl", "_", "d">>, <<"density">>, <<"late", "_", "d">>, <<"MXD">> >>],
      [k |-> <<"Tree Rings", "_", "Isotopes">>, labels |-> << <<"d18O">> >>]
    >>

ShippedTable(g) == IF g = "pages" THEN ShippedPagesTable ELSE ShippedNcdcTable

ShippedOrder(g) == IF g = "pages" THEN ShippedPagesOrder ELSE ShippedNcdcOrder

\* the written order of n keys turned by r places, forwards and backwards
Rot(n, r) == [i \in 1..n |-> ((i - 1 + r) % n) + 1]

RevRot(n, r) == [i \in 1..n |-> n - ((i - 1 + r) % n)]

ScanOrders(n) ==
    {Rot(n, r) : r \in 0..MaxRot} \cup {RevRot(n, r) : r \in 0..MaxRot}

InitShipped ==
    /\ cls = ClassDefaults
    /\ heap = ClassHeap
    /\ configs = <<>>
    /\ pc = "idle"
    /\ edits = 0
    /\ muts = 0
    /\ calls = 0
    /\ result = NoResult
    /\ \E g \in {"pages", "ncdc"} :
          \E o \in ScanOrders(Len(ShippedTable(g))) :
             scan = [group |-> g, order |-> o, i |-> 0, mapping |-> <<>>]

\* one turn of  for ptype, measurements in self.proxy_assim2.iteritems()
ScanStep ==
    /\ scan.group # ""
    /\ scan.i < Len(ShippedTable(scan.group))
    /\ LET e == ShippedTable(scan.group)[scan.order[scan.i + 1]]
       IN scan' = [scan EXCEPT
                     !.i = @ + 1,
                     !.mapping = InsertMeasures(@, SplitFirst(e.k), e.labels, e.k)]
    /\ UNCHANGED <<cls, heap, configs, pc, edits, muts, calls, result>>

NextShipped == ScanStep

SpecShipped == InitShipped /\ [][NextShipped]_vars

(***************************************************************************)
(* Properties.                                                             *)
(***************************************************************************)
Built == {i \in 1..Len(configs) : Complete(configs[i])}

\* C1: every list- or dict-valued field of a resolved instance, and every
\* value of its simple_filters, is an object of its own: not the object the
\* class attribute holds and not the object any other resolved instance holds.
C1_CopyOnResolve ==
    \A i \in Built :
        LET mine == InstFields(configs[i])
            own == Held(heap, configs[i])
        IN /\ \A f \in DOMAIN ClassFields(cls) : mine[f] # ClassFields(cls)[f]
           /\ own \cap Reach(heap, Range(ClassFields(cls))) = {}
           /\ \A j \in Built \ {i} : own \cap Held(heap, configs[j]) = {}

\* C2: proxies or psm called with the keyword override F=V, F a declared
\* field, completes and the instance carries V in F.
C2_OverrideCarried ==
    /\ (result.call = "proxies" /\ "proxy_frac" \in DOMAIN result.kwargs)
          => (result.raised = "" /\ result.inst.proxy_frac = result.kwargs.proxy_frac)
    /\ (result.call = "proxies" /\ "datadir_proxy" \in DOMAIN result.kwargs)
          => (/\ result.raised = ""
              /\ result.inst.pages.datadir_proxy = result.kwargs.datadir_proxy)
    /\ (result.call = "psm" /\ "use_psm" \in DOMAIN result.kwargs)
          => (result.raised = "" /\ result.inst.use_psm = result.kwargs.use_psm)
    /\ (result.call = "psm" /\ "psm_r_crit" \in DOMAIN result.kwargs)
          => (/\ result.raised = ""
              /\ result.inst.linear.psm_r_crit = result.kwargs.psm_r_crit)

\* C3: a resolver called with a keyword that is no declared field raises
\* nothing and returns what it returns without keywords.
C3_UnknownKeyDropped ==
    (result.call # "" /\ DOMAIN result.kwargs = {"no_such_field"})
        => /\ result.raised = ""
           /\ result.call = "proxies" =>
                 /\ result.inst.proxy_frac = cls.proxies_proxy_frac
                 /\ result.inst.use_from = cls.proxies_use_from
           /\ result.call = "psm" => result.inst = Psm(heap, cls)

\* base/rel as the specification writes a path: rel under the directory base
Under(base, rel) ==
    IF base # <<>> /\ Last(base) = SEP THEN base \o rel ELSE base \o <<SEP>> \o rel

Relative(name) == name # <<>> /\ name[1] # SEP

ProxiesStep == pc = "proxies" /\ pc' # "proxies"

PsmStep == pc = "psm" /\ pc' # "psm"

\* C4: a proxy group resolved with datadir_proxy unset has datadir_proxy =
\* <core.lmr_path>/data/proxies (/data/LMR/data/proxies for /data/LMR), and
\* datafile_proxy and metafile_proxy = <that directory>/<the class's file
\* name>, whatever lmr_path and the relative file name are.
C4_ProxyPaths ==
    [][ProxiesStep =>
        LET lmr == cls.core_lmr_path
            p == configs'[Cur].proxies.pages
            n == configs'[Cur].proxies.ncdc
        IN /\ cls.pages_datadir_proxy = None =>
                /\ p.datadir_proxy = Under(lmr, <<"data", SEP, "proxies">>)
                /\ Relative(cls.pages_datafile_proxy) =>
                      p.datafile_proxy =
                          p.datadir_proxy \o <<SEP>> \o cls.pages_datafile_proxy
                /\ Relative(cls.pages_metafile_proxy) =>
                      p.metafile_proxy =
                          p.datadir_proxy \o <<SEP>> \o cls.pages_metafile_proxy
           /\ cls.ncdc_datadir_proxy = None =>
                /\ n.datadir_proxy = Under(lmr, <<"data", SEP, "proxies">>)
                /\ Relative(cls.ncdc_datafile_proxy) =>
                      n.datafile_proxy =
                          n.datadir_proxy \o <<SEP>> \o cls.ncdc_datafile_proxy
                /\ Relative(cls.ncdc_metafile_proxy) =>
                      n.metafile_proxy =
                          n.datadir_proxy \o <<SEP>> \o cls.ncdc_metafile_proxy
           /\ (lmr = <<SEP, "data", SEP, "LMR">>
                   /\ cls.pages_datadir_proxy = None /\ cls.ncdc_datadir_proxy = None) =>
                /\ p.datadir_proxy = <<SEP, "data", SEP, "LMR", SEP, "data", SEP, "proxies">>
                /\ n.datadir_proxy = <<SEP, "data", SEP, "LMR", SEP, "data", SEP, "proxies">>
    ]_vars

\* a Config resolved from lmr_path = /data/LMR
C4_Witness ==
    \E i \in 1..Len(configs) :
        /\ Resolved(configs[i], "proxies")
        /\ configs[i].core.lmr_path = <<SEP, "data", SEP, "LMR">>
        /\ configs[i].proxies.pages.datadir_proxy =
               <<SEP, "data", SEP, "LMR", SEP, "data", SEP, "proxies">>
        /\ configs[i].proxies.ncdc.metafile_proxy =
               <<SEP, "data", SEP, "LMR", SEP, "data", SEP, "proxies", SEP,
                 "NCDC", "_", "v0.1.0", "_", "Metadata.df.pckl">>

\* the one shape of a calibration-output file name
Shape(use_from, version, tags) ==
    <<"PSMs", "_">> \o StrJoin(<<"-">>, use_from) \o version
        \o <<"_">> \o StrJoin(<<"_">>, tags) \o <<".pckl">>

\* C5: the four sites give, for the same use_from and dbversion, a name of
\* the one shape PSMs_<use_from joined by '-'>[_<version>]_<tags joined by
\* '_'>.pckl, differing only in the tags (bilinear: T then P), each placed at
\* <core.lmr_path>/PSM/<name>.
C5_JoinOrder ==
    [][PsmStep =>
        LET use_from == heap[cls.proxies_use_from].items
            at == Under(cls.core_lmr_path, <<"PSM">>)
            m == configs'[Cur].psm
        IN \E version \in {<<>>, <<"_">> \o cls.ncdc_dbversion} :
              /\ cls.linear_pre_calib_datafile = None =>
                    m.linear.pre_calib_datafile =
                        Under(at, Shape(use_from, version, <<cls.linear_datatag_calib>>))
              /\ cls.torp_pre_calib_datafile_T = None =>
                    m.linear_TorP.pre_calib_datafile_T =
                        Under(at, Shape(use_from, version, <<cls.torp_datatag_calib_T>>))
              /\ cls.torp_pre_calib_datafile_P = None =>
                    m.linear_TorP.pre_calib_datafile_P =
                        Under(at, Shape(use_from, version, <<cls.torp_datatag_calib_P>>))
              /\ cls.bilinear_pre_calib_datafile = None =>
                    m.bilinear.pre_calib_datafile =
                        Under(at, Shape(use_from, version,
                                        <<cls.bilinear_datatag_calib_T,
                                          cls.bilinear_datatag_calib_P>>))
    ]_vars

C5_Witness ==
    \E i \in 1..Len(configs) :
        /\ Resolved(configs[i], "psm")
        /\ configs[i].psm.bilinear.pre_calib_datafile =
               <<SEP, "data", SEP, "LMR", SEP, "PSM", SEP, "PSMs", "_", "NCDC",
                 "_", "v0.1.0", "_", "GISTEMP", "_", "DaiPDSI", ".pckl">>
        /\ configs[i].psm.linear_TorP.pre_calib_datafile_P =
               <<SEP, "data", SEP, "LMR", SEP, "PSM", SEP, "PSMs", "_", "NCDC",
                 "_", "v0.1.0", "_", "GPCC", ".pckl">>

\* s holds part as a run of consecutive tokens
Contains(s, part) ==
    \E i \in 0..(Len(s) - Len(part)) : SubSeq(s, i + 1, i + Len(part)) = part

\* C6: for a non-empty use_from the derived calibration-output name holds
\* the version of a selected source that declares one: NCDC in use_from puts
\* _<dbversion>_ in the name, alone or together with another source.
C6_VersionInName ==
    [][PsmStep =>
        LET use_from == heap[cls.proxies_use_from].items
        IN (<<"NCDC">> \in Range(use_from)
                /\ cls.linear_pre_calib_datafile = None) =>
               Contains(configs'[Cur].psm.linear.pre_calib_datafile,
                        <<"_">> \o cls.ncdc_dbversion \o <<"_">>)
    ]_vars

\* the part of a key before its first '_', the whole key without one
PrefixOf(k) ==
    IF "_" \in Range(k)
    THEN SubSeq(k, 1, (CHOOSE i \in 1..Len(k) :
                          k[i] = "_" /\ \A j \in 1..(i - 1) : k[j] # "_") - 1)
    ELSE k

\* the keys of table t (their places) that own the pair x
Owners(t, x) ==
    {i \in 1..Len(t) : PrefixOf(t[i].k) = x[1] /\ x[2] \in Range(t[i].labels)}

PairsOf(t) ==
    UNION {{<<PrefixOf(t[i].k), l>> : l \in Range(t[i].labels)} : i \in 1..Len(t)}

ExampleTable ==
    << [k |-> <<"A", "_", "x">>, labels |-> << <<"p">>, <<"q">> >>],
       [k |-> <<"B", "_", "y">>, labels |-> << <<"q">> >>] >>

ProxyGroups(cfg) == {cfg.proxies.pages, cfg.proxies.ncdc}

\* C7: the keys of the resolved proxy_type_mapping are exactly the pairs
\* (prefix(K), L), K a key of proxy_assim2 and L in its list, and each pair
\* is bound to a key that owns it; the table {'A_x': ['p','q'], 'B_y': ['q']}
\* gives ('A','p') -> 'A_x' and ('B','q') -> 'B_y'.
C7_ReverseIndex ==
    \A i \in 1..Len(configs) :
        Resolved(configs[i], "proxies") =>
            \A g \in ProxyGroups(configs[i]) :
                LET t == TableOf(heap, g.proxy_assim2)
                    m == g.proxy_type_mapping
                IN /\ DOMAIN m = PairsOf(t)
                   /\ \A x \in DOMAIN m : \E o \in Owners(t, x) : m[x] = t[o].k
                   /\ t = ExampleTable =>
                         /\ m[<< <<"A">>, <<"p">> >>] = <<"A", "_", "x">>
                         /\ m[<< <<"B">>, <<"q">> >>] = <<"B", "_", "y">>

\* the example table resolved
C7_Witness ==
    \E i \in 1..Len(configs) :
        /\ Resolved(configs[i], "proxies")
        /\ TableOf(heap, configs[i].proxies.pages.proxy_assim2) = ExampleTable
        /\ DOMAIN configs[i].proxies.pages.proxy_type_mapping =
               {<< <<"A">>, <<"p">> >>, << <<"A">>, <<"q">> >>, << <<"B">>, <<"q">> >>}

Max(S) == CHOOSE x \in S : \A y \in S : y <= x

\* C8: a pair owned by two or more keys is bound to the key declared last.
C8_LastDeclaredWins ==
    \A i \in 1..Len(configs) :
        Resolved(configs[i], "proxies") =>
            \A g \in ProxyGroups(configs[i]) :
                LET t == TableOf(heap, g.proxy_assim2)
                    m == g.proxy_type_mapping
                IN \A x \in DOMAIN m : m[x] = t[Max(Owners(t, x))].k

TablesOf(h, cfg) ==
    <<TableOf(h, cfg.proxies.pages.proxy_assim2),
      TableOf(h, cfg.proxies.ncdc.proxy_assim2)>>

ClassTables(h) ==
    <<TableOf(h, cls.pages_proxy_assim2), TableOf(h, cls.ncdc_proxy_assim2)>>

InOrder(n) == [i \in 1..n |-> i]

\* a step that adds a key to a proxy_assim2 of configs[i] or appends a label
\* to one of its lists
MutatesTable(i) ==
    /\ muts' = muts + 1
    /\ \E a \in Reach(heap, {configs[i].proxies.pages.proxy_assim2,
                             configs[i].proxies.ncdc.proxy_assim2}) :
          heap'[a] # heap[a]

\* C10: adding a key to a resolved instance's proxy_assim2, or appending a
\* label to one of its lists, changes neither the class-level proxy_assim2
\* nor the table of another instance, and a group resolved afterwards gets
\* the class-level table and the reverse index of it.
C10_TableNotAliased ==
    [][/\ \A i \in Built :
            MutatesTable(i) =>
                /\ ClassTables(heap') = ClassTables(heap)
                /\ \A j \in Built \ {i} :
                      TablesOf(heap', configs[j]) = TablesOf(heap, configs[j])
       /\ ProxiesStep =>
            LET new == configs'[Cur].proxies
                dp == TableOf(ClassHeap, ClassDefaults.pages_proxy_assim2)
                dn == TableOf(ClassHeap, ClassDefaults.ncdc_proxy_assim2)
            IN /\ TablesOf(heap', configs'[Cur]) = <<dp, dn>>
               /\ new.pages.proxy_type_mapping = ProxyTypeMapping(dp, InOrder(Len(dp)))
               /\ new.ncdc.proxy_type_mapping = ProxyTypeMapping(dn, InOrder(Len(dn)))
    ]_vars

\* the first Config's pages table got a key before the second Config was
\* built
C10_Witness ==
    /\ Len(configs) = 2
    /\ Complete(configs[2])
    /\ TablesOf(heap, configs[1]) # ClassTables(heap)
    /\ \E e \in Range(heap[configs[1].proxies.pages.proxy_assim2].entries) :
          /\ e.k = <<"New", "_", "key">>
          /\ e.ref < configs[2].proxies.pages.regions

\* an instance with the containers it refers to put in place of their
\* addresses
PagesView(h, p) ==
    [p EXCEPT !.regions = h[@].items,
              !.proxy_resolution = h[@].items,
              !.proxy_order = h[@].items,
              !.proxy_assim2 = TableOf(h, @),
              !.proxy_blacklist = h[@].items,
              !.simple_filters = TableOf(h, @)]

NcdcView(h, p) ==
    [p EXCEPT !.regions = h[@].items,
              !.proxy_resolution = h[@].items,
              !.proxy_order = h[@].items,
              !.proxy_assim2 = TableOf(h, @),
              !.database_filter = h[@].items,
              !.proxy_blacklist = h[@].items,
              !.simple_filters = TableOf(h, @)]

GroupView(h, g, inst) ==
    CASE g = "proxies" -> [inst EXCEPT !.use_from = h[@].items,
                                       !.pages = PagesView(h, @),
                                       !.ncdc = NcdcView(h, @)]
      [] g = "psm" -> [inst EXCEPT !.use_psm = h[@].entries]
      [] g = "prior" -> [inst EXCEPT !.state_variables = h[@].items,
                                     !.psm_required_variables = h[@].items]
      [] OTHER -> inst

\* the groups of configs[i] and configs[j] that both hold agree, field by
\* field and by value
SameValues(i, j) ==
    \A g \in Range(ConfigOrder) :
        Resolved(configs[i], g) /\ Resolved(configs[j], g) =>
            GroupView(heap, g, configs[i][g]) = GroupView(heap, g, configs[j][g])

Collides(t) == \E x \in PairsOf(t) : Cardinality(Owners(t, x)) > 1

\* C11: Config() called again with the class attributes as they were and
\* nothing done in between gives, in every group, the same value of every
\* field as the Config before: the derived directories and file names, the
\* copied lists and tables, and the reverse indices, colliding tables
\* included.
C11_SameTwice ==
    \A i, j \in 1..Len(configs) : SameValues(i, j)

\* two Configs built from a pages table in which two keys share a pair
C11_Witness ==
    /\ Len(configs) = 2
    /\ Complete(configs[1]) /\ Complete(configs[2])
    /\ Collides(TableOf(heap, cls.pages_proxy_assim2))
    /\ configs[1].proxies.pages.proxy_assim2 # configs[2].proxies.pages.proxy_assim2

PriorStep == pc = "prior" /\ pc' # "prior"

\* a field given the value v at class level holds v in the instance
Verbatim(v, field) == v # None => field = v

\* C12: a nullable derived field (datadir_proxy, datadir_calib,
\* pre_calib_datafile, pre_calib_datafile_T, pre_calib_datafile_P,
\* datafile_obsError, datadir_prior) whose class-level value is not None when
\* its group is resolved holds exactly that value in the instance, whatever
\* core.lmr_path, use_from, dbversion and the calibration tags are.
C12_ExplicitVerbatim ==
    [][/\ ProxiesStep =>
            LET p == configs'[Cur].proxies
            IN /\ Verbatim(cls.pages_datadir_proxy, p.pages.datadir_proxy)
               /\ Verbatim(cls.ncdc_datadir_proxy, p.ncdc.datadir_proxy)
       /\ PsmStep =>
            LET p == configs'[Cur].psm
            IN /\ Verbatim(cls.linear_datadir_calib, p.linear.datadir_calib)
               /\ Verbatim(cls.linear_pre_calib_datafile,
                           p.linear.pre_calib_datafile)
               /\ Verbatim(cls.torp_datadir_calib, p.linear_TorP.datadir_calib)
               /\ Verbatim(cls.torp_pre_calib_datafile_T,
                           p.linear_TorP.pre_calib_datafile_T)
               /\ Verbatim(cls.torp_pre_calib_datafile_P,
                           p.linear_TorP.pre_calib_datafile_P)
               /\ Verbatim(cls.bilinear_datadir_calib, p.bilinear.datadir_calib)
               /\ Verbatim(cls.bilinear_pre_calib_datafile,
                           p.bilinear.pre_calib_datafile)
               /\ Verbatim(cls.hinterp_datafile_obsError,
                           p.h_interp.datafile_obsError)
       /\ PriorStep =>
            Verbatim(cls.prior_datadir_prior, configs'[Cur].prior.datadir_prior)
      ]_vars

\* a Config built after psm._linear_TorP.datadir_calib was set to /my/calib
C12_Witness ==
    \E i \in Built :
        /\ cls.torp_datadir_calib = <<"/", "my", "/", "calib">>
        /\ configs[i].psm.linear_TorP.datadir_calib = <<"/", "my", "/", "calib">>
        /\ configs[i].psm.linear.datadir_calib # <<"/", "my", "/", "calib">>

\* C13: in a resolved group no path or file-name field whose class-level
\* default is None is None, the fields a group inherits from a parent group
\* included: pre_calib_datafile, which linear_TorP has from _linear, holds a
\* derived string.
C13_NoUnsetSurvives ==
    \A i \in 1..Len(configs) :
        LET cfg == configs[i]
        IN /\ Resolved(cfg, "proxies") =>
                /\ cfg.proxies.pages.datadir_proxy # None
                /\ cfg.proxies.ncdc.datadir_proxy # None
           /\ Resolved(cfg, "psm") =>
                /\ cfg.psm.linear.datadir_calib # None
                /\ cfg.psm.linear.pre_calib_datafile # None
                /\ cfg.psm.linear_TorP.datadir_calib # None
                /\ cfg.psm.linear_TorP.pre_calib_datafile_T # None
                /\ cfg.psm.linear_TorP.pre_calib_datafile_P # None
                /\ TorPGetattr(cls, cfg.psm.linear_TorP, "pre_calib_datafile") # None
                /\ cfg.psm.bilinear.datadir_calib # None
                /\ cfg.psm.bilinear.pre_calib_datafile # None
                /\ cfg.psm.h_interp.datafile_obsError # None
           /\ Resolved(cfg, "prior") => cfg.prior.datadir_prior # None

\* the step that resolves a group with its base directory unset leaves in the
\* instance the root path of the same Config joined with the group's
\* segments, source being the last segment of the prior's directory
BaseDirStep(source) ==
    LET root == configs[Cur].core.lmr_path
        proxydir == Under(Under(root, <<"data">>), <<"proxies">>)
        calibdir == Under(Under(root, <<"data">>), <<"analyses">>)
        priordir == Under(Under(Under(root, <<"data">>), <<"model">>), source)
    IN /\ ProxiesStep =>
            /\ cls.pages_datadir_proxy = None =>
                   configs'[Cur].proxies.pages.datadir_proxy = proxydir
            /\ cls.ncdc_datadir_proxy = None =>
                   configs'[Cur].proxies.ncdc.datadir_proxy = proxydir
       /\ PsmStep =>
            /\ cls.linear_datadir_calib = None =>
                   configs'[Cur].psm.linear.datadir_calib = calibdir
            /\ cls.torp_datadir_calib = None =>
                   configs'[Cur].psm.linear_TorP.datadir_calib = calibdir
            /\ cls.bilinear_datadir_calib = None =>
                   configs'[Cur].psm.bilinear.datadir_calib = calibdir
       /\ PriorStep =>
            (cls.prior_datadir_prior = None =>
                   configs'[Cur].prior.datadir_prior = priordir)

\* C14 as stated: every group with its base directory unset resolves it to the
\* Config's core.lmr_path joined with segments that are constants of the
\* group (for prior data/model/ccsm4_last_millenium), a function of lmr_path
\* alone.
C14_FixedSegments ==
    [][BaseDirStep(ClassDefaults.prior_prior_source)]_vars

\* C14 amended: the segments are data/proxies for pages and ncdc,
\* data/analyses for linear, linear_TorP and bilinear, and
\* data/model/<prior.prior_source> for prior, whose directory is a function
\* of lmr_path and prior_source.
C14_BaseDir ==
    [][BaseDirStep(cls.prior_prior_source)]_vars

\* a Config built after the prior source and nothing else was changed
C14_Witness ==
    \E i \in Built :
        /\ configs[i].prior.prior_source = <<"gfdl", "_", "cm3">>
        /\ configs[i].core.lmr_path = ClassDefaults.core_lmr_path
        /\ configs[i].prior.datadir_prior =
              ClassDefaults.core_lmr_path
                 \o <<"/", "data", "/", "model", "/", "gfdl", "_", "cm3">>

\* path lies below directory dir
BeginsWith(path, dir) ==
    /\ Len(path) > Len(dir)
    /\ SubSeq(path, 1, Len(dir)) = dir
    /\ (Last(dir) = SEP \/ path[Len(dir) + 1] = SEP)

\* C15 as stated: every file field handed on begins with its group's
\* resolved base directory: datafile_proxy and metafile_proxy with
\* datadir_proxy, datafile_calib, datafile_calib_T and datafile_calib_P with
\* datadir_calib, the pre-calibration files with the root path, datafile_prior
\* with datadir_prior; none is a bare file name.
C15_FullyQualified ==
    \A i \in 1..Len(configs) :
        LET cfg == configs[i]
        IN /\ Resolved(cfg, "proxies") =>
                \A g \in ProxyGroups(cfg) :
                    /\ BeginsWith(g.datafile_proxy, g.datadir_proxy)
                    /\ BeginsWith(g.metafile_proxy, g.datadir_proxy)
           /\ Resolved(cfg, "psm") =>
                LET p == cfg.psm
                IN /\ BeginsWith(p.linear.datafile_calib, p.linear.datadir_calib)
                   /\ BeginsWith(p.linear_TorP.datafile_calib_T,
                                 p.linear_TorP.datadir_calib)
                   /\ BeginsWith(p.linear_TorP.datafile_calib_P,
                                 p.linear_TorP.datadir_calib)
                   /\ BeginsWith(p.bilinear.datafile_calib_T,
                                 p.bilinear.datadir_calib)
                   /\ BeginsWith(p.bilinear.datafile_calib_P,
                                 p.bilinear.datadir_calib)
                   /\ BeginsWith(p.linear.pre_calib_datafile, cfg.core.lmr_path)
                   /\ BeginsWith(p.linear_TorP.pre_calib_datafile_T,
                                 cfg.core.lmr_path)
                   /\ BeginsWith(p.linear_TorP.pre_calib_datafile_P,
                                 cfg.core.lmr_path)
                   /\ BeginsWith(p.bilinear.pre_calib_datafile, cfg.core.lmr_path)
           /\ Resolved(cfg, "prior") =>
                BeginsWith(cfg.prior.datafile_prior, cfg.prior.datadir_prior)

\* C15 amended: datafile_proxy and metafile_proxy begin with datadir_proxy
\* and the derived pre-calibration files with the root path; datafile_calib,
\* datafile_calib_T, datafile_calib_P and datafile_prior are the class-level
\* file names as they stand, no directory put in front.
C15_Qualified ==
    [][/\ ProxiesStep =>
            \A g \in ProxyGroups(configs'[Cur]) :
                /\ BeginsWith(g.datafile_proxy, g.datadir_proxy)
                /\ BeginsWith(g.metafile_proxy, g.datadir_proxy)
       /\ PsmStep =>
            LET p == configs'[Cur].psm
                root == configs[Cur].core.lmr_path
            IN /\ p.linear.datafile_calib = cls.linear_datafile_calib
               /\ p.linear_TorP.datafile_calib_T = cls.torp_datafile_calib_T
               /\ p.linear_TorP.datafile_calib_P = cls.torp_datafile_calib_P
               /\ p.bilinear.datafile_calib_T = cls.bilinear_datafile_calib_T
               /\ p.bilinear.datafile_calib_P = cls.bilinear_datafile_calib_P
               /\ cls.linear_pre_calib_datafile = None =>
                      BeginsWith(p.linear.pre_calib_datafile, root)
               /\ cls.torp_pre_calib_datafile_T = None =>
                      BeginsWith(p.linear_TorP.pre_calib_datafile_T, root)
               /\ cls.torp_pre_calib_datafile_P = None =>
                      BeginsWith(p.linear_TorP.pre_calib_datafile_P, root)
               /\ cls.bilinear_pre_calib_datafile = None =>
                      BeginsWith(p.bilinear.pre_calib_datafile, root)
       /\ PriorStep =>
            configs'[Cur].prior.datafile_prior = cls.prior_datafile_prior
      ]_vars

\* a Config under the root /data/LMR: the cache file below the root, the
\* calibration file and the prior file bare
C15_Witness ==
    \E i \in Built :
        /\ configs[i].core.lmr_path = <<"/", "data", "/", "LMR">>
        /\ BeginsWith(configs[i].psm.linear.pre_calib_datafile,
                      <<"/", "data", "/", "LMR", "/", "PSM">>)
        /\ configs[i].psm.linear.datafile_calib = <<"gistemp1200", "_", "ERSST.nc">>
        /\ SEP \notin Range(configs[i].prior.datafile_prior)

\* a step of Config.__init__: a Config is begun or one of its groups resolved
ConfigStep == configs' # configs

\* the class-level lists and dicts, and the lists the dicts hold
ClassObjects == Reach(heap, Range(ClassFields(cls)))

\* C16: a step of Config() changes no class attribute of any group and no
\* list or dict a class attribute refers to: what was None at class level is
\* still None, a bare file name still bare, however many Configs were built.
C16_DefaultsUntouched ==
    [][ConfigStep =>
          /\ cls' = cls
          /\ \A a \in ClassObjects : heap'[a] = heap[a]]_vars

\* two Configs built and the nullable defaults and the file names of the
\* classes as they were written
C16_Witness ==
    /\ Len(configs) = MaxConfigs
    /\ \A i \in 1..Len(configs) : Complete(configs[i])
    /\ cls = ClassDefaults
    /\ cls.linear_datadir_calib = None
    /\ cls.linear_datafile_calib = <<"gistemp1200", "_", "ERSST.nc">>
    /\ configs[2].psm.linear.datadir_calib # None

\* the versions a name carries, set off by '_' on both sides
Versions == {DbversionDefault, <<"v0.0.0">>}

VersionsIn(name) == {v \in Versions : Contains(name, <<"_">> \o v \o <<"_">>)}

\* C17: in a Config built with use_from = ['NCDC'], whatever was assigned to
\* proxies._ncdc.dbversion before, the version in the names of the NCDC
\* datafile_proxy and metafile_proxy is the version in the names of the
\* derived calibration-output files of linear, linear_TorP and bilinear.
C17_VersionConsistent ==
    \A i \in 1..Len(configs) :
        LET cfg == configs[i]
        IN Resolved(cfg, "psm") /\ heap[cfg.proxies.use_from].items = << <<"NCDC">> >> =>
              \A f \in {cfg.psm.linear.pre_calib_datafile,
                        cfg.psm.linear_TorP.pre_calib_datafile_T,
                        cfg.psm.linear_TorP.pre_calib_datafile_P,
                        cfg.psm.bilinear.pre_calib_datafile} :
                  /\ VersionsIn(f) = VersionsIn(cfg.proxies.ncdc.datafile_proxy)
                  /\ VersionsIn(f) = VersionsIn(cfg.proxies.ncdc.metafile_proxy)

\* C18: the groups instantiated by hand, in any order and any number of them,
\* hold the same values, field by field, as the groups of a Config built by
\* Config.__init__ in its own order from the same class attributes: no
\* derivation reads an instance, a group resolved alone or ahead of core and
\* proxies comes out the same.
C18_OrderIndependent ==
    \A j \in Built :
        \A i \in 1..Len(configs) :
            \A g \in Range(configs[i].done) :
                GroupView(heap, g, configs[i][g]) = GroupView(heap, g, configs[j][g])

\* a second holder complete, its prior instantiated before its proxies
C18_Witness ==
    /\ Len(configs) = 2
    /\ Complete(configs[1]) /\ Complete(configs[2])
    /\ configs[2].prior.state_variables < configs[2].proxies.pages.regions
    /\ configs[1].prior.state_variables > configs[1].proxies.pages.regions

\* how many labels the first n keys visited hold between them
RECURSIVE LabelsUpTo(_, _, _)
LabelsUpTo(t, order, n) ==
    IF n = 0 THEN 0 ELSE Len(t[order[n]].labels) + LabelsUpTo(t, order, n - 1)

\* C19: in the tables as shipped (pages and NCDC) no pair (prefix, label)
\* comes from two keys and no label stands twice in one key's list: the
\* mapping grows by one entry for every label visited and ends with as many
\* entries as the table has labels, the same mapping in whatever order the
\* keys are visited; and every key of proxy_order is a key of proxy_assim2
\* and a value of proxy_type_mapping.
C19_ShippedCollisionFree ==
    scan.group # "" =>
        LET t == ShippedTable(scan.group)
            keys == {t[i].k : i \in 1..Len(t)}
        IN /\ Cardinality(DOMAIN scan.mapping) = LabelsUpTo(t, scan.order, scan.i)
           /\ Cardinality(keys) = Len(t)
           /\ \A i \in 1..Len(t) :
                  Cardinality(Range(t[i].labels)) = Len(t[i].labels)
           /\ scan.i = Len(t) =>
                  /\ DOMAIN scan.mapping = PairsOf(t)
                  /\ \A x \in PairsOf(t) :
                         /\ Cardinality(Owners(t, x)) = 1
                         /\ \A o \in Owners(t, x) : scan.mapping[x] = t[o].k
                  /\ \A k \in Range(ShippedOrder(scan.group)) :
                         k \in keys /\ k \in Range(scan.mapping)

\* the NCDC table visited to the end, last key first
C19_Witness ==
    /\ scan.group = "ncdc"
    /\ scan.i = Len(ShippedNcdcTable)
    /\ scan.order[1] = Len(ShippedNcdcTable)
    /\ Cardinality(DOMAIN scan.mapping) = 70

CoreStep == pc = "core" /\ pc' # "core"

CallCoreStep == calls' = calls + 1 /\ result'.call = "core"

\* C20: whatever was assigned to core.seed and wrapper.iter_range before,
\* proxies() and prior() leave in their instances the seed of the core
\* instance of the same Config, and core() leaves in curr_iter the first
\* element of the iter_range of the Config's wrapper instance; called with
\* curr_iter=n, core leaves n, and called without, the first element of
\* wrapper.iter_range.
C20_SeedAndIteration ==
    [][/\ CoreStep =>
            configs'[Cur].core.curr_iter = configs[Cur].wrapper.iter_range[1]
       /\ ProxiesStep => configs'[Cur].proxies.seed = configs[Cur].core.seed
       /\ PriorStep => configs'[Cur].prior.seed = configs[Cur].core.seed
       /\ CallCoreStep =>
            result'.inst.curr_iter =
                IF result'.kwargs.curr_iter = <<>>
                THEN cls.wrapper_iter_range[1]
                ELSE result'.kwargs.curr_iter[1]
      ]_vars

\* a Config built after core.seed was set to 7
C20_Witness ==
    \E i \in Built :
        /\ configs[i].core.seed = 7
        /\ configs[i].proxies.seed = 7
        /\ configs[i].prior.seed = 7
        /\ configs[i].core.curr_iter = 0

=============================================================================
